---- MODULE Spec2Model ----
(***************************************************************************)
(* Model of AzureFunctionsService (src/azureFunctions/azureFunctionsService *)
(* .ts): one invocation of getAzureFunctions, insertSqlInputBinding or      *)
(* getFunctionsProject, together with the asynchronous operations (glob,    *)
(* stat, UI prompt, remote request) it starts.  A step of the model is the  *)
(* synchronous run of the code between two awaits.                          *)
(***************************************************************************)
EXTENDS Integers, Sequences, FiniteSets, TLC

\* ---- bounds of the model ------------------------------------------------
MaxProjects == 2
MaxFunctions == 2

\* ---- values -------------------------------------------------------------
hostFileName == "host.json"

\* JavaScript undefined for string-valued variables, and for uris/paths
undefined == "<undefined>"
noUri == <<>>
\* a local that the flow has not assigned yet
unset == "<unset>"

DirPool == <<"a", "b", "c", "d">>
DirNames == {DirPool[i] : i \in 1..MaxProjects}
FunctionNames == {"", "F1", "F2"}
ObjectNames == {"", "[dbo].[placeholder]"}
SettingNames == {"", "SqlConnectionString"}

wsRoot == <<"ws">>
sourceFile == <<"ws", "a", "Function.cs">>
ProjectFile(d) == <<"ws", d, "App.csproj">>

\* path.join(folderPath, name) and path.dirname(p) on component sequences
join(folderPath, name) == Append(folderPath, name)
dirname(p) == SubSeq(p, 1, Len(p) - 1)

SeqsUpTo(S, n) == UNION {[1..k -> S] : k \in 0..n}
Range(s) == {s[i] : i \in 1..Len(s)}

\* ---- promises -----------------------------------------------------------
Pending == [state |-> "pending", value |-> noUri, error |-> ""]
Fulfilled(v) == [state |-> "fulfilled", value |-> v, error |-> ""]
Rejected(e) == [state |-> "rejected", value |-> noUri, error |-> e]

\* ---- state --------------------------------------------------------------
VARIABLES
    workspaceFolder,        \* vscode.workspace.getWorkspaceFolder(file): wsRoot or noUri
    globOutcome,            \* what glob(projFilter) yields: an error or the project files
    hostJson,               \* per directory: what <dir>/host.json is on disk
    op,                     \* the public method that was invoked ("idle" before)
    uriArg,                 \* the uri argument the caller passed
    uri,                    \* the uri local after line 53
    pc,                     \* the await the main flow is suspended at
    outcome,                \* settlement of the invoked method's promise
    selectedBinding,
    azureFunctions,
    azureFunctionName,
    objectName,
    connectionStringSetting,
    listResponse,           \* response to GetAzureFunctionsRequest
    insertResponse,         \* response to InsertSqlBindingRequest
    requests,               \* requests sent through _client.sendRequest, in order
    errorMessages,          \* vscode.window.showErrorMessage calls, in order
    lpc,                    \* the await getFunctionsProject is suspended at
    projectFiles,
    functionsProject,       \* the promise returned by getFunctionsProject
    statCalls,              \* isFunctionProject calls: path, awaited or not, settlement
    unhandledRejections,    \* rejections of promises nobody awaits
    ioErrors                \* glob/stat errors other than ENOENT that occurred

envVars == <<workspaceFolder, globOutcome, hostJson>>
flowVars == <<op, uriArg, uri, pc, outcome, selectedBinding, azureFunctions,
              azureFunctionName, objectName, connectionStringSetting,
              listResponse, insertResponse, requests, errorMessages>>
lookupVars == <<lpc, projectFiles, functionsProject, statCalls,
                unhandledRejections, ioErrors>>
vars == <<envVars, flowVars, lookupVars>>

\* ---- file system probes -------------------------------------------------
HostKinds == {"file", "dir", "absent", "denied"}

\* fs.promises.stat(path): the outcomes the platform can produce.  A path
\* below a regular file (App.csproj/host.json) fails with ENOTDIR on POSIX
\* and with ENOENT on Windows.
Stat(path) ==
    IF Len(path) = 3 /\ path[3] = hostFileName
    THEN CASE hostJson[path[2]] = "file" -> {"file"}
           [] hostJson[path[2]] = "dir" -> {"dir"}
           [] hostJson[path[2]] = "absent" -> {"ENOENT"}
           [] OTHER -> {"EACCES"}
    ELSE {"ENOTDIR", "ENOENT"}

NoStats == [defined |-> FALSE, isFile |-> FALSE]
Stats(raw) == [defined |-> TRUE, isFile |-> raw = "file"]

\* getFileStatus: stats on success, undefined on ENOENT, rethrow otherwise
getFileStatus(raw) ==
    IF raw \in {"file", "dir"}
    THEN [threw |-> FALSE, error |-> "", stats |-> Stats(raw)]
    ELSE IF raw = "ENOENT"
         THEN [threw |-> FALSE, error |-> "", stats |-> NoStats]
         ELSE [threw |-> TRUE, error |-> raw, stats |-> NoStats]

fileExistAnyKind(raw) ==
    LET r == getFileStatus(raw) IN
    IF r.threw
    THEN [threw |-> TRUE, error |-> r.error, value |-> FALSE]
    ELSE [threw |-> FALSE, error |-> "", value |-> r.stats.defined]

\* fileExist: stats ? stats.isFile() : false
fileExist(raw) ==
    LET r == getFileStatus(raw) IN
    IF r.threw
    THEN [threw |-> TRUE, error |-> r.error, value |-> FALSE]
    ELSE [threw |-> FALSE, error |-> "",
          value |-> IF r.stats.defined THEN r.stats.isFile ELSE FALSE]

\* isFunctionProject(folderPath): the call record created when it is invoked;
\* the stat of join(folderPath, hostFileName) is then in flight
isFunctionProject(folderPath, isAwaited) ==
    [folderPath |-> folderPath, path |-> join(folderPath, hostFileName),
     awaited |-> isAwaited, state |-> "pending", raw |-> "", value |-> FALSE,
     error |-> ""]

\* settlement of an isFunctionProject call once its stat produced raw
SettleStat(call, raw) ==
    LET r == fileExist(raw) IN
    [call EXCEPT !.state = IF r.threw THEN "rejected" ELSE "fulfilled",
                 !.raw = raw, !.value = r.value, !.error = r.error]

\* ---- initial states ----------------------------------------------------
\* glob enumerates the directories in the order of DirPool; which of them
\* holds what as host.json is free
ProjectLists ==
    {[i \in 1..k |-> ProjectFile(DirPool[i])] : k \in 0..MaxProjects}

GlobOutcomes ==
    {[error |-> TRUE, files |-> <<>>]} \cup
    {[error |-> FALSE, files |-> s] : s \in ProjectLists}

NoResponse == [received |-> FALSE, success |-> FALSE, azureFunctions |-> <<>>, errorMessage |-> ""]

\* Before any method is invoked.  The disk content is only modelled where the
\* code can look: in the directories of the project files glob yields, below
\* a workspace folder.
Init ==
    /\ workspaceFolder \in {wsRoot, noUri}
    /\ globOutcome \in GlobOutcomes
    /\ hostJson \in [DirNames -> HostKinds]
    /\ workspaceFolder = noUri => globOutcome = [error |-> FALSE, files |-> <<>>]
    /\ \A d \in DirNames :
          ProjectFile(d) \notin Range(globOutcome.files) => hostJson[d] = "absent"
    /\ op = "idle"
    /\ uriArg = noUri
    /\ uri = noUri
    /\ pc = "idle"
    /\ outcome = "pending"
    /\ selectedBinding = unset
    /\ azureFunctions = <<>>
    /\ azureFunctionName = unset
    /\ objectName = unset
    /\ connectionStringSetting = unset
    /\ listResponse = NoResponse
    /\ insertResponse = NoResponse
    /\ requests = <<>>
    /\ errorMessages = <<>>
    /\ lpc = "notStarted"
    /\ projectFiles = <<>>
    /\ functionsProject = Pending
    /\ statCalls = <<>>
    /\ unhandledRejections = {}
    /\ ioErrors = {}

\* ---- getFunctionsProject ------------------------------------------------
\* a Promise object in a condition is truthy whatever it settles to
Truthy(call) == TRUE

\* lines 148-168: which branch the number of project files selects
LookupBranch(n) == IF n > 1 THEN "many" ELSE IF n = 0 THEN "none" ELSE "one"

\* lines 150-157: the loop over projectFiles; isFunctionProject(p.fsPath) is
\* called without await and its promise is the condition of the if
RECURSIVE ScanProjects(_, _, _)
ScanProjects(files, i, started) ==
    IF i > Len(files)
    THEN [ret |-> noUri, started |-> started]
    ELSE LET call == isFunctionProject(files[i], FALSE) IN
         IF Truthy(call)
         THEN [ret |-> files[i], started |-> Append(started, call)]
         ELSE ScanProjects(files, i + 1, Append(started, call))

\* lines 158-160: no project file
NoProjectThrows == Rejected("NoProject")
NoProjectResult == Fulfilled(noUri)

\* lines 164-167: one project file; isFuncProject is only logged
SingleProjectChecked(files, isFuncProject) ==
    IF isFuncProject THEN Fulfilled(files[1]) ELSE Fulfilled(noUri)
SingleProjectResult(files, isFuncProject) == Fulfilled(files[1])

IsIoError(raw) == raw \notin {"file", "dir", "ENOENT"}

\* the promise of getFunctionsProject settles with p.  A direct caller awaits
\* it; insertSqlInputBinding (line 57) drops it, so a rejection is unhandled.
SettleLookup(p) ==
    /\ functionsProject' = p
    /\ lpc' = "done"
    /\ IF op = "getFunctionsProject"
       THEN /\ pc' = "done"
            /\ outcome' = IF p.state = "fulfilled" THEN "returned" ELSE "threw"
            /\ UNCHANGED unhandledRejections
       ELSE /\ UNCHANGED <<pc, outcome>>
            /\ unhandledRejections' =
                  IF p.state = "rejected"
                  THEN unhandledRejections \cup {p.error}
                  ELSE unhandledRejections

flowLocals == <<op, uriArg, uri, selectedBinding, azureFunctions,
                azureFunctionName, objectName, connectionStringSetting,
                listResponse, insertResponse, requests, errorMessages>>

\* lines 145-168: glob completes and the flow runs on to its next await
GlobDone ==
    /\ lpc = "glob"
    /\ IF globOutcome.error
       THEN /\ ioErrors' = ioErrors \cup {"GlobError"}
            /\ SettleLookup(Rejected("GlobError"))
            /\ UNCHANGED <<projectFiles, statCalls>>
       ELSE /\ projectFiles' = globOutcome.files
            /\ UNCHANGED ioErrors
            /\ LET files == globOutcome.files
                   branch == LookupBranch(Len(files))
                   scan == ScanProjects(files, 1, <<>>)
               IN CASE branch = "many" ->
                         /\ statCalls' = statCalls \o scan.started
                         /\ SettleLookup(Fulfilled(scan.ret))
                    [] branch = "none" ->
                         /\ UNCHANGED statCalls
                         /\ SettleLookup(NoProjectResult)
                    [] OTHER ->
                         /\ statCalls' = Append(statCalls,
                               isFunctionProject(dirname(files[1]), TRUE))
                         /\ lpc' = "stat"
                         /\ UNCHANGED <<functionsProject, pc, outcome, unhandledRejections>>
    /\ UNCHANGED <<envVars, flowLocals>>

\* lines 164-167 and 172-192: the awaited stat of the only project completes
AwaitedStatDone ==
    /\ lpc = "stat"
    /\ \E i \in 1..Len(statCalls) :
          /\ statCalls[i].state = "pending"
          /\ statCalls[i].awaited
          /\ \E raw \in Stat(statCalls[i].path) :
                LET c == SettleStat(statCalls[i], raw) IN
                /\ statCalls' = [statCalls EXCEPT ![i] = c]
                /\ ioErrors' = IF IsIoError(raw) THEN ioErrors \cup {raw} ELSE ioErrors
                /\ IF c.state = "rejected"
                   THEN SettleLookup(Rejected(c.error))
                   ELSE SettleLookup(SingleProjectResult(projectFiles, c.value))
    /\ UNCHANGED <<envVars, flowLocals, projectFiles>>

\* lines 152 and 172-192: a stat nobody awaits completes in the background
DetachedStatDone ==
    /\ \E i \in 1..Len(statCalls) :
          /\ statCalls[i].state = "pending"
          /\ ~statCalls[i].awaited
          /\ \E raw \in Stat(statCalls[i].path) :
                LET c == SettleStat(statCalls[i], raw) IN
                /\ statCalls' = [statCalls EXCEPT ![i] = c]
                /\ ioErrors' = IF IsIoError(raw) THEN ioErrors \cup {raw} ELSE ioErrors
                /\ unhandledRejections' =
                      IF c.state = "rejected"
                      THEN unhandledRejections \cup {c.error}
                      ELSE unhandledRejections
    /\ UNCHANGED <<envVars, flowVars, lpc, projectFiles, functionsProject>>

\* lines 133-145 run synchronously when getFunctionsProject is called
Call_getFunctionsProject ==
    /\ op = "idle"
    /\ op' = "getFunctionsProject"
    /\ uriArg' = sourceFile
    /\ uri' = sourceFile
    /\ IF workspaceFolder = noUri
       THEN /\ functionsProject' = Rejected("TypeError")
            /\ lpc' = "done"
            /\ pc' = "done"
            /\ outcome' = "threw"
       ELSE /\ lpc' = "glob"
            /\ pc' = "awaitLookup"
            /\ UNCHANGED <<functionsProject, outcome>>
    /\ UNCHANGED <<envVars, selectedBinding, azureFunctions, azureFunctionName,
                   objectName, connectionStringSetting, listResponse,
                   insertResponse, requests, errorMessages, projectFiles,
                   statCalls, unhandledRejections, ioErrors>>

\* ---- getAzureFunctions and insertSqlInputBinding -------------------------
ListRequest(file) ==
    [type |-> "getAzureFunctions", filePath |-> file, functionName |-> "",
     objectName |-> "", bindingType |-> "", connectionStringSetting |-> ""]

\* line 117: selectedBinding === 'input' ? BindingType.input : BindingType.output
BindingTypeOf(binding) == IF binding = "input" THEN "input" ELSE "output"

\* lines 113-119
InsertParams(file, functionName, object, binding, setting) ==
    [type |-> "insertSqlBinding", filePath |-> file, functionName |-> functionName,
     objectName |-> object, bindingType |-> BindingTypeOf(binding),
     connectionStringSetting |-> setting]

\* !x for a string or undefined
Falsy(x) == x = undefined \/ x = ""

ListResponses ==
    {[received |-> TRUE, success |-> FALSE, azureFunctions |-> <<>>,
      errorMessage |-> "list failed"]} \cup
    {[received |-> TRUE, success |-> TRUE, azureFunctions |-> l, errorMessage |-> ""] :
        l \in SeqsUpTo(FunctionNames, MaxFunctions)}

InsertResponses ==
    {[received |-> TRUE, success |-> s, azureFunctions |-> <<>>,
      errorMessage |-> IF s THEN "" ELSE "insert failed"] : s \in BOOLEAN}

\* lines 42-46: the result of getAzureFunctions for a response
GetAzureFunctionsResult(resp) ==
    IF resp.success
    THEN [threw |-> FALSE, value |-> resp.azureFunctions]
    ELSE [threw |-> TRUE, value |-> <<>>]

\* line 73
NoFunctions(list) == Len(list) = 0

\* lines 78-82: the labels offered by the function picker
QuickPickAny(list) == FunctionNames
QuickPickItems(list) == Range(list)

\* lines 127-129
InsertResultSilent(messages, resp) == messages
InsertResultMessages(messages, resp) ==
    IF ~resp.success THEN Append(messages, resp.errorMessage) ELSE messages

\* lines 26-38, called directly
Call_getAzureFunctions ==
    /\ op = "idle"
    /\ op' = "getAzureFunctions"
    /\ \E u \in {sourceFile, noUri} :
          /\ uriArg' = u
          /\ uri' = u
          /\ IF u = noUri
             THEN /\ pc' = "done"
                  /\ outcome' = "returned"
                  /\ UNCHANGED requests
             ELSE /\ pc' = "awaitList"
                  /\ requests' = Append(requests, ListRequest(u))
                  /\ UNCHANGED outcome
    /\ UNCHANGED <<envVars, lookupVars, selectedBinding, azureFunctions,
                   azureFunctionName, objectName, connectionStringSetting,
                   listResponse, insertResponse, errorMessages>>

\* lines 49-65: up to the await of the binding-type picker.  Line 57 runs
\* getFunctionsProject up to its own await (133-145) and keeps going.
Call_insertSqlInputBinding ==
    /\ op = "idle"
    /\ op' = "insertSqlInputBinding"
    /\ \E u \in {sourceFile, noUri}, activeTextEditor \in {sourceFile, noUri} :
          /\ u # noUri => activeTextEditor = sourceFile
          /\ uriArg' = u
          /\ IF u = noUri /\ activeTextEditor = noUri
             THEN \* activeTextEditor is undefined: TypeError on line 53
                  /\ uri' = noUri
                  /\ pc' = "done"
                  /\ outcome' = "threw"
                  /\ UNCHANGED <<lpc, functionsProject, unhandledRejections>>
             ELSE /\ uri' = IF u = noUri THEN activeTextEditor ELSE u
                  /\ pc' = "awaitBindingPick"
                  /\ UNCHANGED outcome
                  /\ IF workspaceFolder = noUri
                     THEN /\ functionsProject' = Rejected("TypeError")
                          /\ lpc' = "done"
                          /\ unhandledRejections' = unhandledRejections \cup {"TypeError"}
                     ELSE /\ lpc' = "glob"
                          /\ UNCHANGED <<functionsProject, unhandledRejections>>
    /\ UNCHANGED <<envVars, selectedBinding, azureFunctions, azureFunctionName,
                   objectName, connectionStringSetting, listResponse,
                   insertResponse, requests, errorMessages, projectFiles,
                   statCalls, ioErrors>>

\* lines 62-70 and 26-38: the binding-type picker closes; getAzureFunctions
\* is called and sends its request
BindingPicked ==
    /\ pc = "awaitBindingPick"
    /\ \E label \in {"input", "output", undefined} :
          selectedBinding' = label
    /\ requests' = Append(requests, ListRequest(uri))
    /\ pc' = "awaitList"
    /\ UNCHANGED <<envVars, lookupVars, op, uriArg, uri, outcome, azureFunctions,
                   azureFunctionName, objectName, connectionStringSetting,
                   listResponse, insertResponse, errorMessages>>

\* lines 38-46 and 70-87: the list-functions response arrives
ListResponse ==
    /\ pc = "awaitList"
    /\ \E resp \in ListResponses :
          LET r == GetAzureFunctionsResult(resp) IN
          /\ listResponse' = resp
          /\ IF r.threw
             THEN /\ pc' = "done"
                  /\ outcome' = "threw"
                  /\ UNCHANGED <<azureFunctions, errorMessages>>
             ELSE /\ azureFunctions' = r.value
                  /\ IF op = "getAzureFunctions"
                     THEN /\ pc' = "done"
                          /\ outcome' = "returned"
                          /\ UNCHANGED errorMessages
                     ELSE IF NoFunctions(r.value)
                          THEN /\ errorMessages' = Append(errorMessages,
                                     "No Azure functions in the current file")
                               /\ pc' = "done"
                               /\ outcome' = "returned"
                          ELSE /\ pc' = "awaitFunctionPick"
                               /\ UNCHANGED <<outcome, errorMessages>>
    /\ UNCHANGED <<envVars, lookupVars, op, uriArg, uri, selectedBinding,
                   azureFunctionName, objectName, connectionStringSetting,
                   insertResponse, requests>>

\* lines 84-97: the function picker closes
FunctionPicked ==
    /\ pc = "awaitFunctionPick"
    /\ \E label \in QuickPickItems(azureFunctions) \cup {undefined} :
          /\ azureFunctionName' = label
          /\ IF Falsy(label)
             THEN pc' = "done" /\ outcome' = "returned"
             ELSE pc' = "awaitObjectName" /\ UNCHANGED outcome
    /\ UNCHANGED <<envVars, lookupVars, op, uriArg, uri, selectedBinding,
                   azureFunctions, objectName, connectionStringSetting,
                   listResponse, insertResponse, requests, errorMessages>>

\* lines 93-107: the object-name input box closes
ObjectNameEntered ==
    /\ pc = "awaitObjectName"
    /\ \E v \in ObjectNames \cup {undefined} :
          /\ objectName' = v
          /\ IF Falsy(v)
             THEN pc' = "done" /\ outcome' = "returned"
             ELSE pc' = "awaitConnectionStringSetting" /\ UNCHANGED outcome
    /\ UNCHANGED <<envVars, lookupVars, op, uriArg, uri, selectedBinding,
                   azureFunctions, azureFunctionName, connectionStringSetting,
                   listResponse, insertResponse, requests, errorMessages>>

\* lines 104-121: the setting-name input box closes; the insert request is sent
ConnectionStringSettingEntered ==
    /\ pc = "awaitConnectionStringSetting"
    /\ \E v \in SettingNames \cup {undefined} :
          /\ connectionStringSetting' = v
          /\ IF Falsy(v)
             THEN /\ pc' = "done"
                  /\ outcome' = "returned"
                  /\ UNCHANGED requests
             ELSE /\ pc' = "awaitInsert"
                  /\ requests' = Append(requests,
                        InsertParams(uri, azureFunctionName, objectName,
                                     selectedBinding, v))
                  /\ UNCHANGED outcome
    /\ UNCHANGED <<envVars, lookupVars, op, uriArg, uri, selectedBinding,
                   azureFunctions, azureFunctionName, objectName,
                   listResponse, insertResponse, errorMessages>>

\* lines 121-130: the insert response arrives
InsertResponse ==
    /\ pc = "awaitInsert"
    /\ \E resp \in InsertResponses :
          /\ insertResponse' = resp
          /\ errorMessages' = InsertResultMessages(errorMessages, resp)
    /\ pc' = "done"
    /\ outcome' = "returned"
    /\ UNCHANGED <<envVars, lookupVars, op, uriArg, uri, selectedBinding,
                   azureFunctions, azureFunctionName, objectName,
                   connectionStringSetting, listResponse, requests>>

Next ==
    \/ Call_getFunctionsProject
    \/ Call_getAzureFunctions
    \/ Call_insertSqlInputBinding
    \/ GlobDone
    \/ AwaitedStatDone
    \/ DetachedStatDone
    \/ BindingPicked
    \/ ListResponse
    \/ FunctionPicked
    \/ ObjectNameEntered
    \/ ConnectionStringSettingEntered
    \/ InsertResponse

Spec == Init /\ [][Next]_vars

\* ---- observations -------------------------------------------------------
NumPendingStats == Cardinality({i \in 1..Len(statCalls) : statCalls[i].state = "pending"})

\* asynchronous operations started and not yet completed
NumInFlight ==
    (IF lpc = "glob" THEN 1 ELSE 0)
    + NumPendingStats
    + (IF pc \in {"awaitBindingPick", "awaitFunctionPick", "awaitObjectName",
                  "awaitConnectionStringSetting"} THEN 1 ELSE 0)
    + (IF pc \in {"awaitList", "awaitInsert"} THEN 1 ELSE 0)

InsertRequests == {i \in 1..Len(requests) : requests[i].type = "insertSqlBinding"}
ListRequests == {i \in 1..Len(requests) : requests[i].type = "getAzureFunctions"}

TypeOK ==
    /\ op \in {"idle", "getAzureFunctions", "insertSqlInputBinding", "getFunctionsProject"}
    /\ outcome \in {"pending", "returned", "threw"}
    /\ lpc \in {"notStarted", "glob", "stat", "done"}
    /\ Len(statCalls) <= 1

\* ---- claims --------------------------------------------------------------
DirOf(projectFile) == projectFile[2]

RECURSIVE FirstWithHostFile(_, _)
FirstWithHostFile(files, i) ==
    IF i > Len(files) THEN noUri
    ELSE IF hostJson[DirOf(files[i])] = "file" THEN files[i]
    ELSE FirstWithHostFile(files, i + 1)

\* C1: when glob yields two or more project files, getFunctionsProject
\* returns the first one, in enumeration order, whose directory holds a
\* regular file host.json, and undefined when no directory holds one.
ClaimC1 ==
    (functionsProject.state = "fulfilled" /\ ~globOutcome.error
        /\ Len(globOutcome.files) >= 2)
    => functionsProject.value = FirstWithHostFile(globOutcome.files, 1)

\* C2: an insert-binding request is only sent with a non-empty function
\* name, a binding direction chosen in the picker, a non-empty object name
\* and a non-empty connection-string setting name; never after the
\* binding-type picker was cancelled.
ClaimC2 ==
    \A i \in InsertRequests :
        /\ ~Falsy(requests[i].functionName)
        /\ selectedBinding \in {"input", "output"}
        /\ ~Falsy(requests[i].objectName)
        /\ ~Falsy(requests[i].connectionStringSetting)

\* C3: within one invocation at most one asynchronous operation (glob,
\* stat, UI prompt, remote request) is in flight at any time.
ClaimC3 == NumInFlight <= 1

\* C4: once a glob or stat error other than not-found has occurred, neither
\* getFunctionsProject nor the insertSqlInputBinding invocation that started
\* the lookup has completed, or completes, with a normal result.
ClaimC4 ==
    ioErrors # {} =>
        /\ functionsProject.state # "fulfilled"
        /\ ~(op = "insertSqlInputBinding" /\ outcome = "returned")

AbsentInput ==
    /\ op \in {"getAzureFunctions", "insertSqlInputBinding"}
    /\ \/ uriArg = noUri
       \/ selectedBinding = undefined
       \/ azureFunctionName = undefined
       \/ objectName = undefined
       \/ connectionStringSetting = undefined

\* C5: an absent file argument or a cancelled prompt ends the operation at
\* once as a silent no-op: it returns normally, shows no error message and
\* sends no remote request after the absence was seen.
ClaimC5 ==
    AbsentInput =>
        /\ pc = "done"
        /\ outcome = "returned"
        /\ errorMessages = <<>>
        /\ InsertRequests = {}
        /\ (uriArg = noUri \/ selectedBinding = undefined) => requests = <<>>

SingleProject == ~globOutcome.error /\ Len(globOutcome.files) = 1

\* C6: when glob yields exactly one project file, getFunctionsProject returns
\* that file whether host.json in its directory is a regular file, a
\* non-file, or absent.
TheoremC6 ==
    (lpc = "done" /\ SingleProject
        /\ hostJson[DirOf(globOutcome.files[1])] \in {"file", "dir", "absent"})
    => /\ functionsProject = Fulfilled(globOutcome.files[1])
       /\ op = "getFunctionsProject" => outcome = "returned"

WitnessC6 ==
    /\ op = "getFunctionsProject"
    /\ lpc = "done"
    /\ SingleProject
    /\ hostJson[DirOf(globOutcome.files[1])] = "absent"
    /\ Len(statCalls) = 1 /\ statCalls[1].state = "fulfilled" /\ ~statCalls[1].value
    /\ functionsProject = Fulfilled(globOutcome.files[1])

\* C7: isFunctionProject(D) is false when the stat of D/host.json fails with
\* ENOENT, true exactly when the stat succeeds on a regular file (false for a
\* directory), and fails with the stat's error for any other stat failure.
TheoremC7 ==
    \A i \in 1..Len(statCalls) :
        LET c == statCalls[i] IN
        c.state # "pending" =>
            /\ c.path = join(c.folderPath, hostFileName)
            /\ c.raw \in Stat(c.path)
            /\ c.raw = "ENOENT" => (c.state = "fulfilled" /\ c.value = FALSE)
            /\ c.raw = "dir" => (c.state = "fulfilled" /\ c.value = FALSE)
            /\ (c.state = "fulfilled" /\ c.value = TRUE) <=> c.raw = "file"
            /\ c.raw \in {"EACCES", "ENOTDIR"} => (c.state = "rejected" /\ c.error = c.raw)

WitnessC7 ==
    \E i \in 1..Len(statCalls) :
        /\ statCalls[i].awaited
        /\ statCalls[i].raw = "EACCES"
        /\ statCalls[i].state = "rejected"
        /\ statCalls[i].error = "EACCES"

\* C8: a failed list-functions response makes getAzureFunctions raise, which
\* ends an enclosing insertSqlInputBinding as failed with no insert request
\* sent; a failed insert-binding response is shown as an error message and
\* insertSqlInputBinding completes normally.
TheoremC8 ==
    /\ (listResponse.received /\ ~listResponse.success) =>
          /\ pc = "done"
          /\ outcome = "threw"
          /\ InsertRequests = {}
    /\ (insertResponse.received /\ ~insertResponse.success) =>
          /\ pc = "done"
          /\ outcome = "returned"
          /\ errorMessages = <<insertResponse.errorMessage>>

WitnessC8 ==
    /\ op = "insertSqlInputBinding"
    /\ insertResponse.received
    /\ ~insertResponse.success
    /\ outcome = "returned"
    /\ errorMessages = <<"insert failed">>

NoProject == workspaceFolder # noUri /\ ~globOutcome.error /\ globOutcome.files = <<>>

\* C9: when glob yields no project file, getFunctionsProject returns
\* undefined as a normal result, raising no error and issuing no stat.
TheoremC9 ==
    (lpc = "done" /\ NoProject)
    => /\ functionsProject = Fulfilled(noUri)
       /\ statCalls = <<>>
       /\ ioErrors = {}
       /\ op = "getFunctionsProject" => outcome = "returned"

WitnessC9 ==
    /\ op = "getFunctionsProject"
    /\ lpc = "done"
    /\ NoProject
    /\ outcome = "returned"
    /\ functionsProject = Fulfilled(noUri)

\* C10: insertSqlInputBinding sends the insert-binding request at most once,
\* only after its list-functions request returned success with a non-empty
\* list, and with a function name taken from that list; an empty list shows
\* an error message and sends no insert request.
TheoremC10 ==
    op = "insertSqlInputBinding" =>
        /\ Cardinality(InsertRequests) <= 1
        /\ \A i \in InsertRequests :
              /\ listResponse.received
              /\ listResponse.success
              /\ Len(listResponse.azureFunctions) > 0
              /\ requests[i].functionName \in Range(listResponse.azureFunctions)
              /\ \E j \in ListRequests : j < i
        /\ (listResponse.received /\ listResponse.success
                /\ listResponse.azureFunctions = <<>>)
           => /\ errorMessages = <<"No Azure functions in the current file">>
              /\ InsertRequests = {}
              /\ pc = "done"

WitnessC10 ==
    /\ op = "insertSqlInputBinding"
    /\ InsertRequests # {}
    /\ Len(listResponse.azureFunctions) = MaxFunctions

====
